---------------------------- MODULE Spec2Model ----------------------------
(***************************************************************************)
(* The POST /miloh handler of app.py as a state machine.                   *)
(*                                                                         *)
(* Process-wide state: os.environ, the global `prompts` module and the     *)
(* course file configs/ds100.env that load_dotenv reads.  Per-request      *)
(* state: the request, the handler's position, its local variables, the    *)
(* calls it made to its collaborators (utils, prompts) and the            *)
(* responses it sent.  Collaborators live outside app.py: each call        *)
(* returns one value of a small set, or raises.                            *)
(*                                                                         *)
(* A text is a sequence of tokens; the token NL is one newline character.  *)
(***************************************************************************)
EXTENDS Integers, Sequences, FiniteSets, TLC

VARIABLES
    environ,      \* os.environ: key -> raw string, or None when unset
    configFile,   \* configs/ds100.env: key -> raw string, or None when absent
    prompts,      \* the global `prompts` of app.py
    pc,           \* per request: position in miloh()
    request,      \* per request: [auth, body]
    local,        \* per request: the local variables of miloh()
    calls,        \* per request: collaborator calls so far, in order
    exc,          \* per request: the exception being propagated
    responses     \* per request: responses sent, in order

vars == <<environ, configFile, prompts, pc, request, local, calls, exc, responses>>

-----------------------------------------------------------------------------
(* Bounds of the model *)

\* Longest chat list of a request body.
MaxChat == 2
\* Request 1 is the request of Spec; SpecPair runs requests 1 and 2 side by side.
Requests == {1, 2}

-----------------------------------------------------------------------------
(* Values *)

\* Python's None, where a string is expected.
None == "<None>"
\* A local variable not yet assigned.
Unbound == "<unbound>"
NL == "\n"

\* question_category = 'Homeworks'
question_category == "Homeworks"

\* 'none', the initial value of the retrieval results
Sentinel == "none"

CategoryKeys == {"ASSIGNMENT_CATEGORIES", "CONTENT_CATEGORIES",
                 "LOGISTICS_CATEGORIES", "WORKSHEET_CATEGORIES"}
EnvKeys == CategoryKeys \cup
           {"API_KEY", "QA_TOP_K", "CATEGORY_MAPPING", "SUBCATEGORY_MAPPING",
            "CONTENT_INDEX_NAME", "LOGISTICS_INDEX_NAME", "WORKSHEET_INDEX_NAME",
            "CONTENT_INDEX_TOP_K", "LOGISTICS_INDEX_TOP_K", "WORKSHEET_INDEX_TOP_K"}

\* os.getenv(key): the raw value, None when unset
Getenv(env, key) == env[key]

\* os.getenv(key, default)
GetenvDefault(env, key, default) == IF env[key] = None THEN default ELSE env[key]

\* ast.literal_eval on the raw strings the model uses: a Python literal
\* evaluates to its value, anything else raises.
LiteralEval(raw) ==
    CASE raw = "[]"            -> [ok |-> TRUE, val |-> <<>>]
      [] raw = "['Homeworks']" -> [ok |-> TRUE, val |-> <<"Homeworks">>]
      [] raw = "['Labs']"      -> [ok |-> TRUE, val |-> <<"Labs">>]
      [] raw = "{}"            -> [ok |-> TRUE, val |-> <<>>]
      [] OTHER                 -> [ok |-> FALSE, val |-> <<>>]

\* int(raw) on the raw strings the model uses
IntOf(raw) ==
    CASE raw = "1" -> [ok |-> TRUE, val |-> 1]
      [] raw = "3" -> [ok |-> TRUE, val |-> 3]
      [] OTHER     -> [ok |-> FALSE, val |-> 0]

\* x in lst, for a Python list
InList(x, lst) == \E i \in 1..Len(lst) : lst[i] = x


\* d.get(key, default), for a dict d
DictGet(d, key, default) == IF key \in DOMAIN d THEN d[key] ELSE default

\* lst[-1]
Last(lst) == lst[Len(lst)]

\* lst[:-1]
AllButLast(lst) == SubSeq(lst, 1, Len(lst) - 1)

\* Mutant: the pattern is "\n", so every newline becomes a space.
ReSubNewlines_Each(text) ==
    [i \in 1..Len(text) |-> IF text[i] = NL THEN " " ELSE text[i]]

\* re.sub(r"\n+", " ", text): every maximal run of newlines becomes one space
RECURSIVE ReSubNewlines(_)
ReSubNewlines(text) ==
    IF text = <<>> THEN <<>>
    ELSE IF Head(text) = NL
         THEN IF Len(text) > 1 /\ text[2] = NL
              THEN ReSubNewlines(Tail(text))
              ELSE <<" ">> \o ReSubNewlines(Tail(text))
         ELSE <<Head(text)>> \o ReSubNewlines(Tail(text))

-----------------------------------------------------------------------------
(* The request *)

\* The texts a chat entry takes: the empty string and a follow-up.
ChatStrings == {<<>>, <<"Here is a follow-up.">>}

ChatLists == UNION {[1..n -> ChatStrings] : n \in 0..MaxChat}

BodyKeys == {"assignment", "question", "location", "description", "chat"}

\* The JSON object with the keys ks, whose chat, if any, is the list chat
JsonObject(ks, chat) ==
    [k \in ks |->
        CASE k = "assignment"  -> <<"HW 1">>
          [] k = "question"    -> <<"1">>
          [] k = "location"    -> <<"OH Queue">>
          [] k = "description" -> <<"I am stuck", NL, NL, "on part (b).">>
          [] k = "chat"        -> chat]

\* The JSON objects of the requests: every key and any chat list, or any
\* subset of the keys and a chat of one entry
JsonObjects ==
    {JsonObject(BodyKeys, chat) : chat \in ChatLists}
    \cup {JsonObject(ks, << <<"Here is a follow-up.">> >>) : ks \in SUBSET BodyKeys}

\* A request body: a JSON object, a JSON array, or bytes request.json rejects.
Bodies ==
    {[kind |-> "object", json |-> d] : d \in JsonObjects}
    \cup {[kind |-> "array", json |-> <<>>], [kind |-> "malformed", json |-> <<>>]}

-----------------------------------------------------------------------------
(* Conversation building, lines 110-138 *)

\* One turn of conversation_history
Turn(text) == [user_role |-> "student", text |-> text, document |-> None]

\* Mutant: get() without a default, so an absent field is formatted as None.
InitialText_NoneForAbsent(d) ==
    <<"Assignment: ">> \o DictGet(d, "assignment", <<"None">>)
    \o <<NL, "Question: ">> \o DictGet(d, "question", <<"None">>)
    \o <<NL, "Description: ">> \o DictGet(d, "description", <<"None">>)

\* initial_text
InitialText(d) ==
    <<"Assignment: ">> \o DictGet(d, "assignment", <<>>)
    \o <<NL, "Question: ">> \o DictGet(d, "question", <<>>)
    \o <<NL, "Description: ">> \o DictGet(d, "description", <<>>)

\* Mutant: the loop skips the blank chat entries.
ChatTurns_SkipBlank(chat) ==
    LET kept == SelectSeq(chat, LAMBDA c : c # <<>>) IN
    [i \in 1..Len(kept) |-> Turn(kept[i])]

\* The turns appended by the loop over input_dict.get('chat', [])
ChatTurns(chat) == [i \in 1..Len(chat) |-> Turn(chat[i])]

\* Mutant: conversation_history is a module-level list that is never reset,
\* so a request appends its turns to those of the request before it.
ConversationHistory_Accumulated(d) ==
    LET built == {q \in Requests :
                     pc[q] = "ocr"
                     \/ \E i \in 1..Len(calls[q]) : calls[q][i].fn = "ocr_process_input"}
        before == IF built = {} THEN <<>>
                  ELSE local[CHOOSE q \in built : TRUE].conversation_history
    IN before \o <<Turn(InitialText(d))>> \o ChatTurns(DictGet(d, "chat", <<>>))

\* conversation_history as handed to ocr_process_input
ConversationHistory(d) ==
    <<Turn(InitialText(d))>> \o ChatTurns(DictGet(d, "chat", <<>>))

\* thread_title; the token " - " stands for the em dash between the two fields
ThreadTitle(d) ==
    DictGet(d, "assignment", <<>>) \o <<" - ">> \o DictGet(d, "question", <<>>)

\* Mutant: the first turn is prepended from two turns on.
ContextExcerpt_FromTwoTurns(conv) ==
    IF Len(conv) < 2 THEN Last(conv).text
    ELSE conv[1].text \o Last(conv).text

\* The context excerpt and question_info of manual retrieval, lines 222-230
ContextExcerpt(conv) ==
    IF Len(conv) <= 2 THEN Last(conv).text
    ELSE conv[1].text \o Last(conv).text

QuestionInfo(d, conv) ==
    ReSubNewlines(
        <<question_category, " ">> \o DictGet(d, "assignment", <<>>)
        \o <<" ">> \o DictGet(d, "question", <<>>)
        \o <<" ">> \o DictGet(d, "description", <<>>)
        \o <<" ">> \o ContextExcerpt(conv))

-----------------------------------------------------------------------------
(* Category dispatch *)

\* Mutant: the hybrid block first asks for the Assignment set and skips
\* retrieval for it, as the generation block's order would have it.
HybridBranch_AssignmentFirst(l) ==
    IF InList(question_category, l.assignment_categories) THEN "none"
    ELSE IF InList(question_category, l.content_categories) THEN "content"
    ELSE IF InList(question_category, l.logistics_categories) THEN "logistics"
    ELSE IF InList(question_category, l.worksheet_categories) THEN "worksheet"
    ELSE "none"

\* The branch of the hybrid retrieval block, lines 185-211
HybridBranch(l) ==
    IF InList(question_category, l.content_categories) THEN "content"
    ELSE IF InList(question_category, l.logistics_categories) THEN "logistics"
    ELSE IF InList(question_category, l.worksheet_categories) THEN "worksheet"
    ELSE "none"

\* Mutant: manual retrieval only for the Worksheet set.
ManualApplies_WorksheetOnly(l) ==
    InList(question_category, l.worksheet_categories)

\* Mutant: manual retrieval for a label in any of the four sets.
ManualApplies_AnySet(l) ==
    InList(question_category,
           l.assignment_categories \o l.content_categories
           \o l.logistics_categories \o l.worksheet_categories)

\* The condition of the manual retrieval block, line 220
ManualApplies(l) ==
    InList(question_category, l.assignment_categories \o l.worksheet_categories)

\* The branch of the response generation block, lines 257-317
GenerationBranch(l) ==
    IF InList(question_category, l.assignment_categories) THEN "assignment"
    ELSE IF InList(question_category, l.content_categories) THEN "content"
    ELSE IF InList(question_category, l.logistics_categories) THEN "logistics"
    ELSE IF InList(question_category, l.worksheet_categories) THEN "worksheet"
    ELSE "none"

\* Index name key, top-k key and semantic_reranking of each hybrid branch
HybridIndexKey(branch) ==
    CASE branch = "content"   -> "CONTENT_INDEX_NAME"
      [] branch = "logistics" -> "LOGISTICS_INDEX_NAME"
      [] branch = "worksheet" -> "WORKSHEET_INDEX_NAME"

HybridTopKKey(branch) ==
    CASE branch = "content"   -> "CONTENT_INDEX_TOP_K"
      [] branch = "logistics" -> "LOGISTICS_INDEX_TOP_K"
      [] branch = "worksheet" -> "WORKSHEET_INDEX_TOP_K"

\* Mutant: the logistics call asks for semantic reranking as the others do.
SemanticReranking_Always(branch) ==
    CASE branch = "content"   -> TRUE
      [] branch = "logistics" -> TRUE
      [] branch = "worksheet" -> TRUE

SemanticReranking(branch) ==
    CASE branch = "content"   -> TRUE
      [] branch = "logistics" -> FALSE
      [] branch = "worksheet" -> TRUE

-----------------------------------------------------------------------------
(* Collaborators: what each may return.  U is the universe of inputs of a  *)
(* specification: the requests that arrive and the values and failures of  *)
(* the collaborators.                                                      *)

\* ocr_process_input returns the turns as they are, or with rewritten texts.
Expanded(conv) ==
    [i \in 1..Len(conv) |-> [conv[i] EXCEPT !.text = @ \o <<"[ocr]">>]]

OcrResults(U, conv) ==
    {conv} \cup (IF "expanded" \in U.ocr THEN {Expanded(conv)} ELSE {})

Universe ==
    [auths  |-> {None, "secret", "wrong"},
     bodies |-> Bodies,
     ocr    |-> {"same", "expanded"},
     search |-> {"summary"},
     qa     |-> {"qa-pairs"},
     hybrid |-> {"hybrid-docs"},
     manual |-> {<<"problems", "doc-3", "manual-docs">>, <<"problems", "doc-3">>,
                 <<"problems", "doc-3", "manual-docs", "scores">>},
     gen    |-> {"LLM-answer", "dummy"},
     errs   |-> {"boom"}]

-----------------------------------------------------------------------------
(* State changes shared by the steps *)

\* Mutant: the except clause logs and does not re-raise; the handler goes on
\* to assemble the record from what it has.
Raise_Swallowed(r, stage, msg) ==
    /\ pc' = [pc EXCEPT ![r] = "assemble"]
    /\ exc' = exc

\* An exception leaves the try blocks of miloh(): every except clause logs
\* and re-raises, lines 89-91, 97-99, ..., 338-341.
Raise(r, stage, msg) ==
    /\ pc' = [pc EXCEPT ![r] = "raised"]
    /\ exc' = [exc EXCEPT ![r] = [stage |-> stage, msg |-> msg]]

Goto(r, label) ==
    /\ pc' = [pc EXCEPT ![r] = label]
    /\ exc' = exc

\* A call of a collaborator as a mock would record it: what was called, with
\* which arguments, and whether it returned a value or raised.
Returned(v) == [raised |-> FALSE, value |-> v]
Raised(m) == [raised |-> TRUE, value |-> m]

Call(r, fn, args, outcome) ==
    calls' = [calls EXCEPT ![r] = Append(@, [fn |-> fn, args |-> args, outcome |-> outcome])]

Respond(r, resp) ==
    responses' = [responses EXCEPT ![r] = Append(@, resp)]

InitLocal ==
    [input_dict                    |-> Unbound,
     assignment_categories         |-> Unbound,
     content_categories            |-> Unbound,
     logistics_categories          |-> Unbound,
     worksheet_categories          |-> Unbound,
     conversation_history          |-> Unbound,
     thread_title                  |-> Unbound,
     processed_conversation        |-> Unbound,
     processed_conversation_search |-> Unbound,
     top_k                         |-> Unbound,
     retrieved_qa_pairs            |-> Unbound,
     retrieved_docs_hybrid         |-> Unbound,
     problem_list_manual           |-> Unbound,
     selected_doc_manual           |-> Unbound,
     retrieved_docs_manual         |-> Unbound,
     response_0                    |-> Unbound,
     response                      |-> Unbound,
     output_dict                   |-> Unbound]

-----------------------------------------------------------------------------
(* Initial states *)

\* Settings of os.environ that make the handler raise, at most.
MaxBadSettings == 1

CategoryRaw == {None, "['Homeworks']", "Homeworks"}

BadSettings(env) ==
    {k \in CategoryKeys : env[k] = "Homeworks"}
    \cup {k \in {"QA_TOP_K"} : env[k] = "one"}
    \cup {k \in {"CATEGORY_MAPPING", "SUBCATEGORY_MAPPING"} : env[k] = "{"}

MkEnviron(cats, api, topk, mapping, submapping) ==
    [k \in EnvKeys |->
        CASE k \in CategoryKeys        -> cats[k]
          [] k = "API_KEY"             -> api
          [] k = "QA_TOP_K"            -> topk
          [] k = "CATEGORY_MAPPING"    -> mapping
          [] k = "SUBCATEGORY_MAPPING" -> submapping
          [] OTHER                     -> None]

Environs ==
    {env \in {MkEnviron(cats, api, topk, mapping, submapping) :
                 cats \in [CategoryKeys -> CategoryRaw], api \in {None, "secret"},
                 topk \in {None, "one"}, mapping \in {None, "{"},
                 submapping \in {None, "{"}} :
        Cardinality(BadSettings(env)) <= MaxBadSettings}

\* configs/ds100.env names the three indexes.
ConfigFiles ==
    {[k \in EnvKeys |->
        CASE k = "CONTENT_INDEX_NAME"   -> "content-index"
          [] k = "LOGISTICS_INDEX_NAME" -> "logistics-index"
          [] k = "WORKSHEET_INDEX_NAME" -> "worksheet-index"
          [] OTHER                      -> None]}

InitRequests ==
    /\ prompts = Unbound
    /\ pc = [r \in Requests |-> "idle"]
    /\ request = [r \in Requests |-> [auth |-> None, body |-> [kind |-> "none", json |-> <<>>]]]
    /\ local = [r \in Requests |-> InitLocal]
    /\ calls = [r \in Requests |-> <<>>]
    /\ exc = [r \in Requests |-> [stage |-> "none", msg |-> ""]]
    /\ responses = [r \in Requests |-> <<>>]

Init ==
    /\ environ \in Environs
    /\ configFile \in ConfigFiles
    /\ InitRequests

-----------------------------------------------------------------------------
(* The steps of miloh(), request r *)

\* A request arrives at POST /miloh.
Receive(r, U) ==
    /\ pc[r] = "idle"
    /\ \E a \in U.auths, b \in U.bodies :
           request' = [request EXCEPT ![r] = [auth |-> a, body |-> b]]
    /\ Goto(r, "auth")
    /\ UNCHANGED <<environ, configFile, prompts, local, calls, responses>>

\* Lines 81-84: request.headers.get('Authorization') != os.getenv('API_KEY')
Unauthorized(auth, env) == auth # Getenv(env, "API_KEY")

\* jsonify(error='Unauthorized'), 401
UnauthorizedResponse == [status |-> 401, body |-> [error |-> "Unauthorized"]]

CheckAuth(r) ==
    /\ pc[r] = "auth"
    /\ IF Unauthorized(request[r].auth, environ)
       THEN /\ Respond(r, UnauthorizedResponse)
            /\ Goto(r, "done")
       ELSE /\ Goto(r, "parse")
            /\ UNCHANGED responses
    /\ UNCHANGED <<environ, configFile, prompts, request, local, calls>>

\* Lines 87-92: input_dict = request.json or {}; list(input_dict.keys())
ParseBody(r) ==
    /\ pc[r] = "parse"
    /\ CASE request[r].body.kind = "malformed" ->
              /\ Raise(r, "request.json", "400 Bad Request")
              /\ UNCHANGED local
         [] request[r].body.kind = "array" ->
              /\ Raise(r, "input_dict.keys", "'list' object has no attribute 'keys'")
              /\ local' = [local EXCEPT ![r].input_dict = request[r].body.json]
         [] OTHER ->
              /\ Goto(r, "load_config")
              /\ local' = [local EXCEPT ![r].input_dict = request[r].body.json]
    /\ UNCHANGED <<environ, configFile, prompts, request, calls, responses>>

\* load_dotenv(path, override=True): the file's settings replace the
\* environment's.
LoadDotenvOverride(env, file) ==
    [k \in EnvKeys |-> IF file[k] # None THEN file[k] ELSE env[k]]

\* Lines 94-99 and load_course_config, lines 30-48: 'ds100' in 'ds100_miloh',
\* so the ds100 prompts are imported and configs/ds100.env is loaded.
LoadCourseConfig(r, U) ==
    /\ pc[r] = "load_config"
    /\ LET args == [course |-> "ds100_miloh"] IN
       \/ /\ prompts' = "ds100_multiturn_prompts"
          /\ environ' = LoadDotenvOverride(environ, configFile)
          /\ Call(r, "load_course_config", args, Returned(None))
          /\ Goto(r, "env_lists")
       \/ /\ \E m \in U.errs : /\ Raise(r, "load_course_config", m)
                                /\ Call(r, "load_course_config", args, Raised(m))
          /\ UNCHANGED <<environ, prompts>>
    /\ UNCHANGED <<configFile, request, local, responses>>

\* Mutant: a value that does not evaluate is logged and read as the empty list.
get_env_list_EmptyOnError(env, key) ==
    IF LiteralEval(GetenvDefault(env, key, "[]")).ok
    THEN LiteralEval(GetenvDefault(env, key, "[]"))
    ELSE [ok |-> TRUE, val |-> <<>>]

\* get_env_list, lines 50-58
get_env_list(env, key) == LiteralEval(GetenvDefault(env, key, "[]"))

\* The first of the four keys whose value does not evaluate, or None
FirstBadCategoryKey(env) ==
    IF ~get_env_list(env, "ASSIGNMENT_CATEGORIES").ok THEN "ASSIGNMENT_CATEGORIES"
    ELSE IF ~get_env_list(env, "CONTENT_CATEGORIES").ok THEN "CONTENT_CATEGORIES"
    ELSE IF ~get_env_list(env, "LOGISTICS_CATEGORIES").ok THEN "LOGISTICS_CATEGORIES"
    ELSE IF ~get_env_list(env, "WORKSHEET_CATEGORIES").ok THEN "WORKSHEET_CATEGORIES"
    ELSE None

\* The lists assigned before get_env_list raises for the key bad
ListsBefore(l, env, bad) ==
    [l EXCEPT
        !.assignment_categories =
            IF bad \in {"CONTENT_CATEGORIES", "LOGISTICS_CATEGORIES", "WORKSHEET_CATEGORIES"}
            THEN get_env_list(env, "ASSIGNMENT_CATEGORIES").val ELSE @,
        !.content_categories =
            IF bad \in {"LOGISTICS_CATEGORIES", "WORKSHEET_CATEGORIES"}
            THEN get_env_list(env, "CONTENT_CATEGORIES").val ELSE @,
        !.logistics_categories =
            IF bad = "WORKSHEET_CATEGORIES"
            THEN get_env_list(env, "LOGISTICS_CATEGORIES").val ELSE @]

\* Lines 101-108
GetEnvLists(r) ==
    /\ pc[r] = "env_lists"
    /\ IF FirstBadCategoryKey(environ) # None
       THEN /\ Raise(r, "get_env_list", FirstBadCategoryKey(environ))
            /\ local' = [local EXCEPT ![r] =
                            ListsBefore(local[r], environ, FirstBadCategoryKey(environ))]
       ELSE /\ Goto(r, "build")
            /\ local' = [local EXCEPT
                  ![r].assignment_categories = get_env_list(environ, "ASSIGNMENT_CATEGORIES").val,
                  ![r].content_categories    = get_env_list(environ, "CONTENT_CATEGORIES").val,
                  ![r].logistics_categories  = get_env_list(environ, "LOGISTICS_CATEGORIES").val,
                  ![r].worksheet_categories  = get_env_list(environ, "WORKSHEET_CATEGORIES").val]
    /\ UNCHANGED <<environ, configFile, prompts, request, calls, responses>>

\* Lines 110-138
BuildConversation(r) ==
    /\ pc[r] = "build"
    /\ local' = [local EXCEPT
          ![r].conversation_history = ConversationHistory(local[r].input_dict),
          ![r].thread_title         = ThreadTitle(local[r].input_dict)]
    /\ Goto(r, "ocr")
    /\ UNCHANGED <<environ, configFile, prompts, request, calls, responses>>

\* Lines 139-147
OcrProcessInput(r, U) ==
    /\ pc[r] = "ocr"
    /\ LET args == [thread_title         |-> local[r].thread_title,
                    conversation_history |-> local[r].conversation_history]
       IN
       \/ \E v \in OcrResults(U, local[r].conversation_history) :
             /\ local' = [local EXCEPT ![r].processed_conversation = v]
             /\ Call(r, "ocr_process_input", args, Returned(v))
             /\ Goto(r, "summarize")
       \/ /\ \E m \in U.errs : /\ Raise(r, "ocr_process_input", m)
                                /\ Call(r, "ocr_process_input", args, Raised(m))
          /\ UNCHANGED local
    /\ UNCHANGED <<environ, configFile, prompts, request, responses>>

\* Mutant: the summarization prompt is built from every turn.
SummarizePrompt_AllTurns(l) ==
    [prompt |-> "get_summarize_conversation_prompt",
     turns  |-> l.processed_conversation]

\* prompts.get_summarize_conversation_prompt(processed_conversation[:-1])
SummarizePrompt(l) ==
    [prompt |-> "get_summarize_conversation_prompt",
     turns  |-> AllButLast(l.processed_conversation)]

\* Lines 149-158
ProcessConversationSearch(r, U) ==
    /\ pc[r] = "summarize"
    /\ LET args == [processed_conversation |-> local[r].processed_conversation,
                    prompt_summarize       |-> SummarizePrompt(local[r])]
       IN
       \/ \E v \in U.search :
             /\ local' = [local EXCEPT ![r].processed_conversation_search = v]
             /\ Call(r, "process_conversation_search", args, Returned(v))
             /\ Goto(r, "qa")
       \/ /\ \E m \in U.errs : /\ Raise(r, "process_conversation_search", m)
                                /\ Call(r, "process_conversation_search", args, Raised(m))
          /\ UNCHANGED local
    /\ UNCHANGED <<environ, configFile, prompts, request, responses>>

\* Lines 160-172: top_k = int(os.getenv('QA_TOP_K', '3')), then retrieve_qa
RetrieveQa(r, U) ==
    /\ pc[r] = "qa"
    /\ LET top_k == IntOf(GetenvDefault(environ, "QA_TOP_K", "3")) IN
       IF ~top_k.ok
       THEN /\ Raise(r, "QA_TOP_K", "invalid literal for int()")
            /\ UNCHANGED <<local, calls>>
       ELSE LET args == [conversation |-> local[r].processed_conversation_search,
                         top_k        |-> top_k.val]
            IN
            \/ \E v \in U.qa :
                  /\ local' = [local EXCEPT ![r].top_k = top_k.val,
                                            ![r].retrieved_qa_pairs = v]
                  /\ Call(r, "retrieve_qa", args, Returned(v))
                  /\ Goto(r, "hybrid")
            \/ /\ \E m \in U.errs : /\ Raise(r, "retrieve_qa", m)
                                     /\ Call(r, "retrieve_qa", args, Raised(m))
               /\ local' = [local EXCEPT ![r].top_k = top_k.val]
    /\ UNCHANGED <<environ, configFile, prompts, request, responses>>

\* Lines 182-215
HybridRetrieval(r, U) ==
    /\ pc[r] = "hybrid"
    /\ LET branch == HybridBranch(local[r]) IN
       IF branch = "none"
       THEN /\ local' = [local EXCEPT ![r].retrieved_docs_hybrid = Sentinel]
            /\ Goto(r, "manual")
            /\ UNCHANGED calls
       ELSE LET top_k == IntOf(GetenvDefault(environ, HybridTopKKey(branch), "1")) IN
            IF ~top_k.ok
            THEN /\ Raise(r, HybridTopKKey(branch), "invalid literal for int()")
                 /\ local' = [local EXCEPT ![r].retrieved_docs_hybrid = Sentinel]
                 /\ UNCHANGED calls
            ELSE LET args == [text               |-> local[r].processed_conversation_search,
                              index_name         |-> Getenv(environ, HybridIndexKey(branch)),
                              top_k              |-> top_k.val,
                              semantic_reranking |-> SemanticReranking(branch)]
                 IN
                 \/ \E v \in U.hybrid :
                       /\ local' = [local EXCEPT ![r].retrieved_docs_hybrid = v]
                       /\ Call(r, "retrieve_docs_hybrid", args, Returned(v))
                       /\ Goto(r, "manual")
                 \/ /\ \E m \in U.errs : /\ Raise(r, "retrieve_docs_hybrid", m)
                                          /\ Call(r, "retrieve_docs_hybrid", args, Raised(m))
                    /\ local' = [local EXCEPT ![r].retrieved_docs_hybrid = Sentinel]
    /\ UNCHANGED <<environ, configFile, prompts, request, responses>>

\* Line 218
ManualSentinels(l) ==
    [l EXCEPT !.problem_list_manual   = Sentinel,
              !.selected_doc_manual   = Sentinel,
              !.retrieved_docs_manual = Sentinel]

\* Mutant: a value of another length is cut or padded to three fields.
UnpackTriple_Padded(l, v) ==
    [ok  |-> TRUE,
     msg |-> "",
     l   |-> [l EXCEPT
                !.problem_list_manual   = IF Len(v) >= 1 THEN v[1] ELSE Sentinel,
                !.selected_doc_manual   = IF Len(v) >= 2 THEN v[2] ELSE Sentinel,
                !.retrieved_docs_manual = IF Len(v) >= 3 THEN v[3] ELSE Sentinel]]

\* Line 236: problem_list_manual, selected_doc_manual, retrieved_docs_manual
\* = <the value returned>.  The three names are bound together, or none is.
UnpackTriple(l, v) ==
    IF Len(v) = 3
    THEN [ok  |-> TRUE,
          msg |-> "",
          l   |-> [l EXCEPT !.problem_list_manual   = v[1],
                            !.selected_doc_manual   = v[2],
                            !.retrieved_docs_manual = v[3]]]
    ELSE [ok  |-> FALSE,
          msg |-> IF Len(v) < 3 THEN "not enough values to unpack"
                                ELSE "too many values to unpack",
          l   |-> l]

\* Lines 217-252
ManualRetrieval(r, U) ==
    /\ pc[r] = "manual"
    /\ LET l == ManualSentinels(local[r])
           category_mapping == LiteralEval(GetenvDefault(environ, "CATEGORY_MAPPING", "{}"))
           subcategory_mapping == LiteralEval(GetenvDefault(environ, "SUBCATEGORY_MAPPING", "{}"))
       IN
       IF ~ManualApplies(local[r])
       THEN /\ local' = [local EXCEPT ![r] = l]
            /\ Goto(r, "generate")
            /\ UNCHANGED calls
       ELSE IF Len(local[r].processed_conversation) = 0
       THEN /\ Raise(r, "question_info", "list index out of range")
            /\ local' = [local EXCEPT ![r] = l]
            /\ UNCHANGED calls
       ELSE IF ~category_mapping.ok \/ ~subcategory_mapping.ok
       THEN /\ Raise(r, "literal_eval", "malformed node or string")
            /\ local' = [local EXCEPT ![r] = l]
            /\ UNCHANGED calls
       ELSE LET args ==
                    [question_category    |-> question_category,
                     category_mapping     |-> category_mapping.val,
                     question_subcategory |-> DictGet(local[r].input_dict, "subcategory", None),
                     subcategory_mapping  |-> subcategory_mapping.val,
                     question_info        |-> QuestionInfo(local[r].input_dict,
                                                           local[r].processed_conversation),
                     get_prompt           |-> "get_choose_problem_path_prompt"]
            IN
            \/ \E v \in U.manual :
                  /\ Call(r, "retrieve_docs_manual", args, Returned(v))
                  /\ local' = [local EXCEPT ![r] = UnpackTriple(l, v).l]
                  /\ IF UnpackTriple(l, v).ok
                     THEN Goto(r, "generate")
                     ELSE Raise(r, "unpack", UnpackTriple(l, v).msg)
            \/ /\ \E m \in U.errs : /\ Raise(r, "retrieve_docs_manual", m)
                                     /\ Call(r, "retrieve_docs_manual", args, Raised(m))
               /\ local' = [local EXCEPT ![r] = l]
    /\ UNCHANGED <<environ, configFile, prompts, request, responses>>

\* The keyword arguments of the prompt builders, lines 260-264, 273-276,
\* 284-288, 296-300 and 308-313
FirstAssignmentPrompt(l) ==
    [prompt                 |-> "get_first_assignment_prompt",
     processed_conversation |-> l.processed_conversation,
     retrieved_qa_pairs     |-> l.retrieved_qa_pairs,
     retrieved_docs_manual  |-> l.retrieved_docs_manual]

\* Mutant: the second prompt is given the QA pairs as the first one is.
SecondAssignmentPrompt_WithQa(l) ==
    [prompt                 |-> "get_second_assignment_prompt",
     processed_conversation |-> l.processed_conversation,
     first_answer           |-> l.response_0,
     retrieved_qa_pairs     |-> l.retrieved_qa_pairs]

SecondAssignmentPrompt(l) ==
    [prompt                 |-> "get_second_assignment_prompt",
     processed_conversation |-> l.processed_conversation,
     first_answer           |-> l.response_0]

ContentPrompt(l) ==
    [prompt                 |-> "get_content_prompt",
     processed_conversation |-> l.processed_conversation,
     retrieved_qa_pairs     |-> l.retrieved_qa_pairs,
     retrieved_docs_hybrid  |-> l.retrieved_docs_hybrid]

LogisticsPrompt(l) ==
    [prompt                 |-> "get_logistics_prompt",
     processed_conversation |-> l.processed_conversation,
     retrieved_qa_pairs     |-> l.retrieved_qa_pairs,
     retrieved_docs_hybrid  |-> l.retrieved_docs_hybrid]

WorksheetPrompt(l) ==
    [prompt                 |-> "get_worksheet_prompt",
     processed_conversation |-> l.processed_conversation,
     retrieved_qa_pairs     |-> l.retrieved_qa_pairs,
     retrieved_docs_manual  |-> l.retrieved_docs_manual,
     retrieved_docs_hybrid  |-> l.retrieved_docs_hybrid]

SingleStagePrompt(branch, l) ==
    CASE branch = "content"   -> ContentPrompt(l)
      [] branch = "logistics" -> LogisticsPrompt(l)
      [] branch = "worksheet" -> WorksheetPrompt(l)

\* Mutant: the answer starts as the sentinel of the retrieval results.
EmptyResponses_Sentinel(l) == [l EXCEPT !.response_0 = "", !.response = Sentinel]

\* Line 256
EmptyResponses(l) == [l EXCEPT !.response_0 = "", !.response = ""]

\* Lines 255-269 and 281-321: the first generate call of the request, if any
Generate(r, U) ==
    /\ pc[r] = "generate"
    /\ LET branch == GenerationBranch(local[r])
           l == EmptyResponses(local[r])
       IN
       IF branch = "none"
       THEN /\ local' = [local EXCEPT ![r] = l]
            /\ Goto(r, "assemble")
            /\ UNCHANGED calls
       ELSE IF branch = "assignment"
       THEN LET args == [prompt |-> FirstAssignmentPrompt(l)] IN
            \/ \E v \in U.gen :
                  /\ local' = [local EXCEPT ![r] = [l EXCEPT !.response_0 = v]]
                  /\ Call(r, "generate", args, Returned(v))
                  /\ Goto(r, "generate_second")
            \/ /\ \E m \in U.errs : /\ Raise(r, "generate", m)
                                     /\ Call(r, "generate", args, Raised(m))
               /\ local' = [local EXCEPT ![r] = l]
       ELSE LET args == [prompt |-> SingleStagePrompt(branch, l)] IN
            \/ \E v \in U.gen :
                  /\ local' = [local EXCEPT ![r] = [l EXCEPT !.response = v]]
                  /\ Call(r, "generate", args, Returned(v))
                  /\ Goto(r, "assemble")
            \/ /\ \E m \in U.errs : /\ Raise(r, "generate", m)
                                     /\ Call(r, "generate", args, Raised(m))
               /\ local' = [local EXCEPT ![r] = l]
    /\ UNCHANGED <<environ, configFile, prompts, request, responses>>

\* Mutant: the second generate call is made again when it raises.
GenerateSecond_Retry(r, U) ==
    /\ pc[r] = "generate_second"
    /\ LET args == [prompt |-> SecondAssignmentPrompt(local[r])] IN
       \/ \E v \in U.gen :
             /\ local' = [local EXCEPT ![r].response = v]
             /\ Call(r, "generate", args, Returned(v))
             /\ Goto(r, "assemble")
       \/ /\ \E m \in U.errs : Call(r, "generate", args, Raised(m))
          /\ Len(calls[r]) < 9
          /\ UNCHANGED <<local, pc, exc>>
    /\ UNCHANGED <<environ, configFile, prompts, request, responses>>

\* Lines 271-280: the second generate call of the assignment branch
GenerateSecond(r, U) ==
    /\ pc[r] = "generate_second"
    /\ LET args == [prompt |-> SecondAssignmentPrompt(local[r])] IN
       \/ \E v \in U.gen :
             /\ local' = [local EXCEPT ![r].response = v]
             /\ Call(r, "generate", args, Returned(v))
             /\ Goto(r, "assemble")
       \/ /\ \E m \in U.errs : /\ Raise(r, "generate", m)
                                /\ Call(r, "generate", args, Raised(m))
          /\ UNCHANGED local
    /\ UNCHANGED <<environ, configFile, prompts, request, responses>>

\* Mutant: a record without a draft carries the final answer as its draft.
OutputDict_DraftFallsBack(l) ==
    [processed_conversation        |-> l.processed_conversation,
     processed_conversation_search |-> l.processed_conversation_search,
     retrieved_qa_pairs            |-> l.retrieved_qa_pairs,
     retrieved_docs_hybrid         |-> l.retrieved_docs_hybrid,
     problem_list_manual           |-> l.problem_list_manual,
     selected_doc_manual           |-> l.selected_doc_manual,
     retrieved_docs_manual         |-> l.retrieved_docs_manual,
     response_0                    |-> IF l.response_0 = "" THEN l.response ELSE l.response_0,
     response                      |-> l.response]

\* Lines 324-334
OutputDict(l) ==
    [processed_conversation        |-> l.processed_conversation,
     processed_conversation_search |-> l.processed_conversation_search,
     retrieved_qa_pairs            |-> l.retrieved_qa_pairs,
     retrieved_docs_hybrid         |-> l.retrieved_docs_hybrid,
     problem_list_manual           |-> l.problem_list_manual,
     selected_doc_manual           |-> l.selected_doc_manual,
     retrieved_docs_manual         |-> l.retrieved_docs_manual,
     response_0                    |-> l.response_0,
     response                      |-> l.response]

\* Mutant: the response carries the draft of the record.
SuccessResponse_Draft(output_dict) ==
    [status |-> 200, body |-> [Miloh |-> output_dict.response_0]]

\* jsonify({"Miloh": output_dict["response"]}), status 200
SuccessResponse(output_dict) ==
    [status |-> 200, body |-> [Miloh |-> output_dict.response]]

\* Mutant: the handler unbinds the global prompt set before it returns.
AssembleAndRespond_UnbindsPrompts(r) ==
    /\ pc[r] = "assemble"
    /\ local' = [local EXCEPT ![r].output_dict = OutputDict(local[r])]
    /\ Respond(r, SuccessResponse(OutputDict(local[r])))
    /\ Goto(r, "done")
    /\ prompts' = Unbound
    /\ UNCHANGED <<environ, configFile, request, calls>>

\* Lines 323-336
AssembleAndRespond(r) ==
    /\ pc[r] = "assemble"
    /\ local' = [local EXCEPT ![r].output_dict = OutputDict(local[r])]
    /\ Respond(r, SuccessResponse(OutputDict(local[r])))
    /\ Goto(r, "done")
    /\ UNCHANGED <<environ, configFile, prompts, request, calls>>

\* Mutant: no handler for Exception, so Flask answers its own status for the
\* HTTP exception request.json raises.
UnhandledResponse_HttpDefault(e) ==
    [status |-> IF e.stage = "request.json" THEN 400 ELSE 500,
     body   |-> [error |-> "Internal Server Error", detail |-> e.msg]]

\* Mutant: the body also names the stage that failed.
UnhandledResponse_WithStage(e) ==
    [status |-> 500,
     body   |-> [error |-> "Internal Server Error", detail |-> e.msg,
                 stage |-> e.stage]]

\* jsonify(error="Internal Server Error", detail=str(e)), 500
UnhandledResponse(e) ==
    [status |-> 500, body |-> [error |-> "Internal Server Error", detail |-> e.msg]]

\* _unhandled, lines 60-64: the handler of every exception miloh() lets out
Unhandled(r) ==
    /\ pc[r] = "raised"
    /\ Respond(r, UnhandledResponse(exc[r]))
    /\ Goto(r, "done")
    /\ UNCHANGED <<environ, configFile, prompts, request, local, calls>>

-----------------------------------------------------------------------------
(* Specifications *)

Step(r, U) ==
    \/ Receive(r, U)
    \/ CheckAuth(r)
    \/ ParseBody(r)
    \/ LoadCourseConfig(r, U)
    \/ GetEnvLists(r)
    \/ BuildConversation(r)
    \/ OcrProcessInput(r, U)
    \/ ProcessConversationSearch(r, U)
    \/ RetrieveQa(r, U)
    \/ HybridRetrieval(r, U)
    \/ ManualRetrieval(r, U)
    \/ Generate(r, U)
    \/ GenerateSecond(r, U)
    \/ AssembleAndRespond(r)
    \/ Unhandled(r)

\* One request, every input.
Next == Step(1, Universe)

Spec == Init /\ [][Next]_vars

\* Two requests side by side, for the properties that compare two runs: both
\* carry the right secret and the body of the tests, the label is in any of
\* the sets, and the retrievers answer one of two values each.
PairUniverse ==
    [auths  |-> {"secret"},
     bodies |-> {[kind |-> "object",
                  json |-> JsonObject(BodyKeys, << <<"Here is a follow-up.">> >>)]},
     ocr    |-> {"same"},
     search |-> {"summary"},
     qa     |-> {"qa-pairs", "None"},
     hybrid |-> {"hybrid-docs", "other-hybrid-docs"},
     manual |-> {<<"problems", "doc-3", "manual-docs">>,
                 <<"problems", "doc-4", "other-manual-docs">>},
     gen    |-> {"LLM-answer", "dummy"},
     errs   |-> {"boom", "bang"}]

PairEnvirons ==
    {MkEnviron(cats, "secret", None, None, None) :
        cats \in [CategoryKeys -> {None, "['Homeworks']"}]}

InitPair ==
    /\ environ \in PairEnvirons
    /\ configFile \in ConfigFiles
    /\ InitRequests

NextPair == \E r \in Requests : Step(r, PairUniverse)

SpecPair == InitPair /\ [][NextPair]_vars

-----------------------------------------------------------------------------
(* What the properties below read from a state *)

\* The label 'Homeworks' is in the category set configured under key.
InSet(key) == environ[key] = "['Homeworks']"

\* The calls of request r to the collaborator fn, in order
CallsOf(r, fn) == SelectSeq(calls[r], LAMBDA c : c.fn = fn)

\* The names of the prompts of the generate calls of request r, in order
GeneratePrompts(r) ==
    LET g == CallsOf(r, "generate") IN [i \in 1..Len(g) |-> g[i].args.prompt.prompt]

\* The collaborators of the pipeline
Collaborators ==
    {"ocr_process_input", "process_conversation_search", "retrieve_qa",
     "retrieve_docs_hybrid", "retrieve_docs_manual", "generate"}

\* Request r got exactly this one response.
OnlyResponse(r, status) ==
    /\ Len(responses[r]) = 1
    /\ responses[r][1].status = status

-----------------------------------------------------------------------------
(* C1 *)

\* C1: a request never gets more than one response; every response is 200
\* with a body that has the key "Miloh", or 401, or 500; a request that has
\* not been answered yet can always take a step, and a finished one has
\* exactly one response.
C1_ResponseStatus ==
    \A r \in Requests :
        /\ Len(responses[r]) <= 1
        /\ pc[r] = "done" <=> Len(responses[r]) = 1
        /\ pc[r] \notin {"idle", "done"} => ENABLED Step(r, Universe)
        /\ \A i \in 1..Len(responses[r]) :
              \/ /\ responses[r][i].status = 200
                 /\ "Miloh" \in DOMAIN responses[r][i].body
              \/ responses[r][i].status = 401
              \/ responses[r][i].status = 500

\* A request that went through the whole pipeline and was answered 200.
C1_Witness ==
    /\ pc[1] = "done"
    /\ OnlyResponse(1, 200)
    /\ Len(CallsOf(1, "generate")) = 2

-----------------------------------------------------------------------------
(* C2 *)

\* C2 (as claimed): a request whose Authorization header is absent, or is
\* not the configured API_KEY, is answered 401 as soon as the header has been
\* checked, and nothing was loaded or called for it.
C2_NoAuthNoWork ==
    \A r \in Requests :
        (/\ pc[r] \notin {"idle", "auth"}
         /\ \/ request[r].auth = None
            \/ request[r].auth # environ["API_KEY"])
        => /\ pc[r] = "done"
           /\ OnlyResponse(r, 401)
           /\ calls[r] = <<>>

-----------------------------------------------------------------------------
(* C3 *)

\* Request r failed: an exception is propagating or was handled, a
\* collaborator raised, or a category list that does not evaluate was read.
Failed(r) ==
    \/ exc[r].stage # "none"
    \/ \E i \in 1..Len(calls[r]) : calls[r][i].outcome.raised
    \/ /\ pc[r] \notin {"idle", "auth", "parse", "load_config", "env_lists"}
       /\ Len(responses[r]) = 0 \/ responses[r][1].status # 401
       /\ \E k \in CategoryKeys : environ[k] = "Homeworks"

\* C3: once a stage of a request has failed, the failed call is the last
\* call of the request, the request is propagating the exception or has
\* answered, no record was assembled from defaults, and its only response
\* is 500.
C3_FailureAborts ==
    \A r \in Requests :
        Failed(r) =>
            /\ exc[r].stage # "none"
            /\ \A i \in 1..Len(calls[r]) : calls[r][i].outcome.raised => i = Len(calls[r])
            /\ pc[r] \in {"raised", "done"}
            /\ Len(responses[r]) <= 1
            /\ \A i \in 1..Len(responses[r]) : responses[r][i].status = 500
            /\ pc[r] = "done" => OnlyResponse(r, 500)

\* QA retrieval raised in the middle of the pipeline; the request got 500.
C3_Witness ==
    /\ pc[1] = "done"
    /\ OnlyResponse(1, 500)
    /\ Len(calls[1]) = 4
    /\ calls[1][4].fn = "retrieve_qa"
    /\ calls[1][4].outcome.raised

-----------------------------------------------------------------------------
(* C4 *)

\* Request r has finished the hybrid retrieval block without failing.
AfterHybrid(r) == pc[r] \in {"manual", "generate", "generate_second", "assemble"}

\* Request r has finished the response generation block without failing.
AfterGeneration(r) == pc[r] = "assemble"

\* The first of the sets named by keys, in that order, that holds the label
RECURSIVE FirstSet(_)
FirstSet(keys) ==
    IF keys = <<>> THEN "none"
    ELSE IF InSet(Head(keys)) THEN Head(keys)
    ELSE FirstSet(Tail(keys))

\* The hybrid retrieval of request r is the one the decision table gives the
\* set named by key: none for the Assignment set and for no set, else one
\* call against the set's index with the set's reranking flag.
HybridPolicyOf(r, key) ==
    LET h == CallsOf(r, "retrieve_docs_hybrid") IN
    IF key \in {"ASSIGNMENT_CATEGORIES", "none"}
    THEN /\ h = <<>>
         /\ local[r].retrieved_docs_hybrid = Sentinel
    ELSE /\ Len(h) = 1
         /\ h[1].args.index_name =
               (CASE key = "CONTENT_CATEGORIES"   -> "content-index"
                  [] key = "LOGISTICS_CATEGORIES" -> "logistics-index"
                  [] key = "WORKSHEET_CATEGORIES" -> "worksheet-index")
         /\ h[1].args.semantic_reranking = (key # "LOGISTICS_CATEGORIES")
         /\ local[r].retrieved_docs_hybrid = h[1].outcome.value

\* The generate calls of request r are those of the strategy of the set
\* named by key: two stages for the Assignment set, one call with the set's
\* prompt for the others, none for no set.
GenerationStrategyOf(r, key) ==
    GeneratePrompts(r) =
        (CASE key = "ASSIGNMENT_CATEGORIES" ->
                  <<"get_first_assignment_prompt", "get_second_assignment_prompt">>
           [] key = "CONTENT_CATEGORIES"   -> <<"get_content_prompt">>
           [] key = "LOGISTICS_CATEGORIES" -> <<"get_logistics_prompt">>
           [] key = "WORKSHEET_CATEGORIES" -> <<"get_worksheet_prompt">>
           [] OTHER                        -> <<>>)

AllFourSets ==
    <<"ASSIGNMENT_CATEGORIES", "CONTENT_CATEGORIES",
      "LOGISTICS_CATEGORIES", "WORKSHEET_CATEGORIES">>

HybridSets == <<"CONTENT_CATEGORIES", "LOGISTICS_CATEGORIES", "WORKSHEET_CATEGORIES">>

\* C4 (as claimed): hybrid retrieval and generation both follow the first
\* set holding the label in the order Assignment, Content, Logistics,
\* Worksheet; a label in the Assignment set gets no hybrid retrieval.
C4_FirstOfFour ==
    \A r \in Requests :
        /\ AfterHybrid(r) => HybridPolicyOf(r, FirstSet(AllFourSets))
        /\ AfterGeneration(r) => GenerationStrategyOf(r, FirstSet(AllFourSets))

\* C4 (amended): generation follows the first set holding the label in the
\* order Assignment, Content, Logistics, Worksheet; hybrid retrieval follows
\* the first set holding the label in the order Content, Logistics,
\* Worksheet, whether or not the label is in the Assignment set.
C4_HybridSkipsAssignment ==
    \A r \in Requests :
        /\ AfterHybrid(r) => HybridPolicyOf(r, FirstSet(HybridSets))
        /\ AfterGeneration(r) => GenerationStrategyOf(r, FirstSet(AllFourSets))

\* A label in the Assignment and Logistics sets: two-stage generation after a
\* hybrid retrieval against the logistics index.
C4_Witness ==
    /\ pc[1] = "assemble"
    /\ InSet("ASSIGNMENT_CATEGORIES")
    /\ ~InSet("CONTENT_CATEGORIES")
    /\ InSet("LOGISTICS_CATEGORIES")
    /\ Len(CallsOf(1, "retrieve_docs_hybrid")) = 1
    /\ Len(CallsOf(1, "generate")) = 2

-----------------------------------------------------------------------------
(* C5 *)

\* Request r has finished the manual retrieval block without failing.
AfterManual(r) == pc[r] \in {"generate", "generate_second", "assemble"}

\* C5: manual retrieval is never called twice, is called only for a label in
\* the Assignment or the Worksheet set, and has been called once in every
\* request of such a label that reaches generation, whatever the hybrid and
\* generation branches; the manual triple then holds the three values the
\* call returned, else the sentinel.
C5_ManualIffAssignmentOrWorksheet ==
    \A r \in Requests :
        LET m == CallsOf(r, "retrieve_docs_manual")
            applies == InSet("ASSIGNMENT_CATEGORIES") \/ InSet("WORKSHEET_CATEGORIES")
        IN
        /\ Len(m) <= 1
        /\ Len(m) = 1 => applies
        /\ AfterManual(r) =>
              /\ Len(m) = 1 <=> applies
              /\ IF applies
                 THEN /\ local[r].problem_list_manual   = m[1].outcome.value[1]
                      /\ local[r].selected_doc_manual   = m[1].outcome.value[2]
                      /\ local[r].retrieved_docs_manual = m[1].outcome.value[3]
                 ELSE /\ local[r].problem_list_manual   = Sentinel
                      /\ local[r].selected_doc_manual   = Sentinel
                      /\ local[r].retrieved_docs_manual = Sentinel

\* An Assignment-only label reaches generation with the retriever's values.
C5_Witness ==
    /\ pc[1] = "generate"
    /\ InSet("ASSIGNMENT_CATEGORIES")
    /\ ~InSet("WORKSHEET_CATEGORIES")
    /\ Len(CallsOf(1, "retrieve_docs_manual")) = 1
    /\ local[1].selected_doc_manual = "doc-3"

-----------------------------------------------------------------------------
(* C6 *)

\* The stage-2 generate calls of request r
SecondStageCalls(r) ==
    SelectSeq(calls[r],
              LAMBDA c : c.fn = "generate"
                         /\ c.args.prompt.prompt = "get_second_assignment_prompt")

\* C6: the stage-2 prompt is built from the processed conversation and the
\* stage-1 draft and from nothing else; so two requests with the same
\* processed conversation and the same draft hand stage 2 the same inputs,
\* whatever their QA pairs, hybrid documents and manual documents.
C6_Stage2Inputs ==
    /\ \A r \in Requests :
          \A i \in 1..Len(SecondStageCalls(r)) :
              LET prompt == SecondStageCalls(r)[i].args.prompt IN
              /\ DOMAIN prompt = {"prompt", "processed_conversation", "first_answer"}
              /\ prompt.processed_conversation = local[r].processed_conversation
              /\ prompt.first_answer = local[r].response_0
    /\ \A r1, r2 \in Requests :
          (/\ SecondStageCalls(r1) # <<>>
           /\ SecondStageCalls(r2) # <<>>
           /\ local[r1].processed_conversation = local[r2].processed_conversation
           /\ local[r1].response_0 = local[r2].response_0)
          => SecondStageCalls(r1)[1].args = SecondStageCalls(r2)[1].args

\* Two requests made their stage-2 call with the same conversation and the
\* same draft, and with different QA pairs, hybrid and manual documents.
C6_Witness ==
    /\ SecondStageCalls(1) # <<>>
    /\ SecondStageCalls(2) # <<>>
    /\ local[1].processed_conversation = local[2].processed_conversation
    /\ local[1].response_0 = local[2].response_0
    /\ local[1].retrieved_qa_pairs # local[2].retrieved_qa_pairs
    /\ local[1].retrieved_docs_manual # local[2].retrieved_docs_manual
    /\ local[1].retrieved_docs_hybrid # local[2].retrieved_docs_hybrid
    /\ local[1].retrieved_docs_hybrid # Sentinel

-----------------------------------------------------------------------------
(* C7 *)

\* The place of a call in the order of the stages; the second generate call
\* of the assignment branch is a stage of its own.
StageRank(c) ==
    CASE c.fn = "load_course_config"          -> 0
      [] c.fn = "ocr_process_input"           -> 1
      [] c.fn = "process_conversation_search" -> 2
      [] c.fn = "retrieve_qa"                 -> 3
      [] c.fn = "retrieve_docs_hybrid"        -> 4
      [] c.fn = "retrieve_docs_manual"        -> 5
      [] c.fn = "generate" ->
            IF c.args.prompt.prompt = "get_second_assignment_prompt" THEN 7 ELSE 6

\* C7: the calls of a request come in the order of the stages, each stage at
\* most once; OCR, summarization and QA retrieval come before any later
\* stage; no call follows a call that raised; the stage-2 generate call
\* directly follows a stage-1 call that returned; and the request is answered
\* 200 only after its last call returned.
C7_StageOrder ==
    \A r \in Requests :
        LET cs == calls[r] IN
        /\ \A i, j \in 1..Len(cs) : i < j => StageRank(cs[i]) < StageRank(cs[j])
        /\ \A i \in 1..Len(cs) :
              /\ StageRank(cs[i]) <= 4 => StageRank(cs[i]) = i - 1
              /\ StageRank(cs[i]) > 4 => i > 4
              /\ cs[i].outcome.raised => i = Len(cs)
              /\ StageRank(cs[i]) = 7 =>
                    /\ i > 1
                    /\ cs[i-1].fn = "generate"
                    /\ cs[i-1].args.prompt.prompt = "get_first_assignment_prompt"
                    /\ ~cs[i-1].outcome.raised
                    /\ cs[i].args.prompt.first_answer = cs[i-1].outcome.value
        /\ (Len(responses[r]) > 0 /\ responses[r][1].status = 200) =>
              /\ pc[r] = "done"
              /\ \A i \in 1..Len(cs) : ~cs[i].outcome.raised

\* An assignment request that also ran hybrid retrieval: all eight calls, the
\* last one stage 2, which raised.
C7_Witness ==
    /\ pc[1] = "done"
    /\ Len(calls[1]) = 8
    /\ StageRank(calls[1][8]) = 7
    /\ calls[1][8].outcome.raised

-----------------------------------------------------------------------------
(* C8 *)

\* The label is in none of the four category sets.
InNoSet == \A k \in CategoryKeys : ~InSet(k)

\* Request r was authorized and nothing it read or called failed.
AuthorizedAndSucceeded(r) ==
    /\ pc[r] = "done"
    /\ ~Unauthorized(request[r].auth, environ)
    /\ request[r].body.kind = "object"
    /\ BadSettings(environ) = {}
    /\ \A i \in 1..Len(calls[r]) : ~calls[r][i].outcome.raised

\* C8: with the label in no category set, an authorized request whose stages
\* all succeed is answered 200 with the empty string as answer; its record
\* holds 'none' for the hybrid result and for the manual triple; and hybrid
\* retrieval, manual retrieval and generate were never called.
C8_NoCategoryNoOp ==
    \A r \in Requests :
        (AuthorizedAndSucceeded(r) /\ InNoSet) =>
            /\ OnlyResponse(r, 200)
            /\ responses[r][1].body = [Miloh |-> ""]
            /\ local[r].output_dict.retrieved_docs_hybrid = Sentinel
            /\ local[r].output_dict.problem_list_manual = Sentinel
            /\ local[r].output_dict.selected_doc_manual = Sentinel
            /\ local[r].output_dict.retrieved_docs_manual = Sentinel
            /\ local[r].output_dict.response = ""
            /\ \A i \in 1..Len(calls[r]) :
                  calls[r][i].fn \notin
                      {"retrieve_docs_hybrid", "retrieve_docs_manual", "generate"}

\* Such a request: three turns, OCR, summarization and QA retrieval only.
C8_Witness ==
    /\ AuthorizedAndSucceeded(1)
    /\ InNoSet
    /\ Len(calls[1]) = 4
    /\ Len(local[1].processed_conversation) = 3
    /\ OnlyResponse(1, 200)

-----------------------------------------------------------------------------
(* C9 and C10 *)

\* The chat list of the body of request r, the empty list when it has none
ChatOf(r) ==
    IF "chat" \in DOMAIN request[r].body.json THEN request[r].body.json["chat"] ELSE <<>>

C10_BlankChatSkipped ==
    \A r \in Requests :
        \A i \in 1..Len(calls[r]) :
            calls[r][i].fn = "ocr_process_input" =>
                LET conv == calls[r][i].args.conversation_history
                    chat == ChatOf(r)
                IN
                /\ \A k \in 2..Len(conv) : conv[k].text # <<>>
                /\ chat = << <<>> >> => Len(conv) = 1

-----------------------------------------------------------------------------
(* C11 *)

\* Request r is past the summarization stage.
AfterSummarize(r) ==
    /\ Len(CallsOf(r, "ocr_process_input")) = 1
    /\ ~CallsOf(r, "ocr_process_input")[1].outcome.raised
    /\ pc[r] # "summarize"

\* C11: the summarization prompt handed to process_conversation_search is
\* built from the turns ocr_process_input returned, the last one left out
\* and the others in order; for a conversation of one turn it is built from
\* the empty sequence, and the call is made all the same: once OCR has
\* returned, the handler does not leave the summarization stage without
\* having called process_conversation_search.
C11_SummarizeAllButLast ==
    \A r \in Requests :
        /\ \A i \in 1..Len(calls[r]) :
              calls[r][i].fn = "process_conversation_search" =>
                  LET conv  == CallsOf(r, "ocr_process_input")[1].outcome.value
                      turns == calls[r][i].args.prompt_summarize.turns
                  IN
                  /\ calls[r][i].args.processed_conversation = conv
                  /\ Len(turns) = Len(conv) - 1
                  /\ \A k \in 1..Len(turns) : turns[k] = conv[k]
                  /\ Len(conv) = 1 => turns = <<>>
        /\ AfterSummarize(r) => Len(CallsOf(r, "process_conversation_search")) = 1

\* A conversation of one turn whose summarization call returned, the request
\* ending in 200; and one of three turns, summarized from its first two.
C11_Witness ==
    /\ OnlyResponse(1, 200)
    /\ Len(CallsOf(1, "process_conversation_search")) = 1
    /\ Len(CallsOf(1, "process_conversation_search")[1].args.processed_conversation) = 1
    /\ CallsOf(1, "process_conversation_search")[1].args.prompt_summarize.turns = <<>>
    /\ ~CallsOf(1, "process_conversation_search")[1].outcome.raised

C11_WitnessThreeTurns ==
    /\ Len(CallsOf(1, "process_conversation_search")) = 1
    /\ Len(CallsOf(1, "process_conversation_search")[1].args.processed_conversation) = 3
    /\ Len(CallsOf(1, "process_conversation_search")[1].args.prompt_summarize.turns) = 2

-----------------------------------------------------------------------------
(* C12 *)

\* The label is in the set configured under key and in no other set.
OnlyInSet(key) == \A k \in CategoryKeys : InSet(k) <=> k = key

\* Request r called hybrid retrieval exactly once, against the index that
\* configs/ds100.env names under indexKey, with this reranking flag.
OneHybridCall(r, indexKey, reranking) ==
    LET h == CallsOf(r, "retrieve_docs_hybrid") IN
    /\ Len(h) = 1
    /\ h[1].args.index_name = configFile[indexKey]
    /\ h[1].args.semantic_reranking = reranking

\* C12: a request whose label is only in the Logistics set, once through the
\* hybrid block, has called hybrid retrieval once, against the logistics
\* index with semantic_reranking false; only in the Content set, once against
\* the content index with semantic_reranking true; only in the Worksheet set,
\* once against the worksheet index with semantic_reranking true.  Hybrid
\* retrieval is never called a second time.
C12_HybridPerSet ==
    \A r \in Requests :
        /\ Len(CallsOf(r, "retrieve_docs_hybrid")) <= 1
        /\ (AfterHybrid(r) /\ OnlyInSet("LOGISTICS_CATEGORIES")) =>
              OneHybridCall(r, "LOGISTICS_INDEX_NAME", FALSE)
        /\ (AfterHybrid(r) /\ OnlyInSet("CONTENT_CATEGORIES")) =>
              OneHybridCall(r, "CONTENT_INDEX_NAME", TRUE)
        /\ (AfterHybrid(r) /\ OnlyInSet("WORKSHEET_CATEGORIES")) =>
              OneHybridCall(r, "WORKSHEET_INDEX_NAME", TRUE)

\* A Logistics-only label after its hybrid call against "logistics-index".
C12_Witness ==
    /\ AfterHybrid(1)
    /\ OnlyInSet("LOGISTICS_CATEGORIES")
    /\ Len(CallsOf(1, "retrieve_docs_hybrid")) = 1
    /\ CallsOf(1, "retrieve_docs_hybrid")[1].args.index_name = "logistics-index"
    /\ ~CallsOf(1, "retrieve_docs_hybrid")[1].args.semantic_reranking

\* The same for a Content-only and for a Worksheet-only label.
C12_WitnessContent ==
    /\ AfterHybrid(1)
    /\ OnlyInSet("CONTENT_CATEGORIES")
    /\ OneHybridCall(1, "CONTENT_INDEX_NAME", TRUE)

C12_WitnessWorksheet ==
    /\ AfterHybrid(1)
    /\ OnlyInSet("WORKSHEET_CATEGORIES")
    /\ OneHybridCall(1, "WORKSHEET_INDEX_NAME", TRUE)

-----------------------------------------------------------------------------
(* C13 *)

\* The field of the body of request r, the empty text when it is absent
FieldOf(r, key) ==
    IF key \in DOMAIN request[r].body.json THEN request[r].body.json[key] ELSE <<>>

\* text read from its end: a newline that follows a newline is dropped, any
\* other newline becomes one space, everything else stays
RECURSIVE CollapsedNewlines(_)
CollapsedNewlines(text) ==
    IF text = <<>> THEN <<>>
    ELSE LET n    == Len(text)
             init == CollapsedNewlines(SubSeq(text, 1, n - 1))
         IN IF text[n] # NL THEN Append(init, text[n])
            ELSE IF n > 1 /\ text[n - 1] = NL THEN init
            ELSE Append(init, " ")

\* C13: the question_info handed to retrieve_docs_manual is the label, the
\* assignment, the question, the description and the context excerpt, one
\* space between them, with every run of newlines turned into a single
\* space; the excerpt is the text of the last turn ocr_process_input
\* returned when it returned at most two turns, and the text of the first
\* turn with the text of the last one right behind it when it returned three
\* or more.
C13_ContextExcerpt ==
    \A r \in Requests :
        \A i \in 1..Len(calls[r]) :
            calls[r][i].fn = "retrieve_docs_manual" =>
                LET conv    == CallsOf(r, "ocr_process_input")[1].outcome.value
                    excerpt == IF Len(conv) <= 2
                               THEN conv[Len(conv)].text
                               ELSE conv[1].text \o conv[Len(conv)].text
                    info    == calls[r][i].args.question_info
                IN
                /\ info = CollapsedNewlines(
                              <<"Homeworks", " ">> \o FieldOf(r, "assignment")
                              \o <<" ">> \o FieldOf(r, "question")
                              \o <<" ">> \o FieldOf(r, "description")
                              \o <<" ">> \o excerpt)
                /\ \A k \in 1..Len(info) : info[k] # NL

\* Three turns, rewritten by OCR: question_info holds the ticket turn (its
\* newlines and the two of the description now single spaces) and then the
\* last chat entry.
C13_Witness ==
    /\ Len(CallsOf(1, "retrieve_docs_manual")) = 1
    /\ Len(local[1].processed_conversation) = 3
    /\ local[1].processed_conversation[3].text = <<"Here is a follow-up.", "[ocr]">>
    /\ "description" \in DOMAIN request[1].body.json
    /\ LET info == CallsOf(1, "retrieve_docs_manual")[1].args.question_info IN
       SubSeq(info, Len(info) - 5, Len(info)) =
           <<"I am stuck", " ", "on part (b).", "[ocr]", "Here is a follow-up.", "[ocr]">>

\* Two turns: question_info ends with the last turn only.
C13_WitnessTwoTurns ==
    /\ Len(CallsOf(1, "retrieve_docs_manual")) = 1
    /\ Len(local[1].processed_conversation) = 2
    /\ "description" \in DOMAIN request[1].body.json
    /\ LET info == CallsOf(1, "retrieve_docs_manual")[1].args.question_info IN
       SubSeq(info, Len(info) - 2, Len(info)) =
           <<"on part (b).", " ", "Here is a follow-up.">>

-----------------------------------------------------------------------------
(* C14 *)

\* Every manual retrieval call of request r returned three values.
ManualReturnedTriple(r) ==
    \A i \in 1..Len(calls[r]) :
        calls[r][i].fn = "retrieve_docs_manual" => Len(calls[r][i].outcome.value) = 3

\* C14: an authorized request whose stages all succeeded got one response,
\* 200, whose body has the one field "Miloh"; when the request called
\* generate, that field is the value its last generate call returned: the
\* stage-2 call of the two calls of the Assignment path, the only call of
\* the Content, Logistics and Worksheet paths.
C14_MilohIsFinalAnswer ==
    \A r \in Requests :
        (AuthorizedAndSucceeded(r) /\ ManualReturnedTriple(r)) =>
            LET g == CallsOf(r, "generate") IN
            /\ OnlyResponse(r, 200)
            /\ DOMAIN responses[r][1].body = {"Miloh"}
            /\ InSet("ASSIGNMENT_CATEGORIES") =>
                  /\ Len(g) = 2
                  /\ g[2].args.prompt.prompt = "get_second_assignment_prompt"
            /\ (~InSet("ASSIGNMENT_CATEGORIES") /\ ~InNoSet) => Len(g) = 1
            /\ g # <<>> => responses[r][1].body.Miloh = g[Len(g)].outcome.value

\* The Assignment path with a draft that differs from the final answer.
C14_Witness ==
    /\ AuthorizedAndSucceeded(1)
    /\ request[1].auth = "secret"
    /\ Len(CallsOf(1, "generate")) = 2
    /\ CallsOf(1, "generate")[1].outcome.value = "dummy"
    /\ CallsOf(1, "generate")[2].outcome.value = "LLM-answer"
    /\ responses[1] = <<[status |-> 200, body |-> [Miloh |-> "LLM-answer"]]>>

\* A single-call path.
C14_WitnessSingleCall ==
    /\ AuthorizedAndSucceeded(1)
    /\ OnlyInSet("CONTENT_CATEGORIES")
    /\ Len(CallsOf(1, "generate")) = 1
    /\ responses[1] = <<[status |-> 200, body |-> [Miloh |-> "dummy"]]>>

-----------------------------------------------------------------------------
(* C15 *)

ConfigKeys == CategoryKeys \cup {"CATEGORY_MAPPING", "SUBCATEGORY_MAPPING"}

\* The value under key is not set; it is set to text that is no Python literal.
Missing(key)   == environ[key] = None
Malformed(key) == environ[key] \in {"Homeworks", "{"}

\* The local list of request r read from the category key
LocalListOf(r, key) ==
    CASE key = "ASSIGNMENT_CATEGORIES" -> local[r].assignment_categories
      [] key = "CONTENT_CATEGORIES"    -> local[r].content_categories
      [] key = "LOGISTICS_CATEGORIES"  -> local[r].logistics_categories
      [] key = "WORKSHEET_CATEGORIES"  -> local[r].worksheet_categories

\* Request r passed the authorization check and has been answered.
AuthorizedAndDone(r) ==
    /\ pc[r] = "done"
    /\ ~Unauthorized(request[r].auth, environ)

C15_WitnessMapping ==
    /\ AuthorizedAndDone(1)
    /\ OnlyInSet("WORKSHEET_CATEGORIES")
    /\ Malformed("SUBCATEGORY_MAPPING")
    /\ exc[1].stage = "literal_eval"
    /\ Len(CallsOf(1, "retrieve_docs_hybrid")) = 1
    /\ OnlyResponse(1, 500)

\* Every category-set and mapping value missing: the request is answered 200.
C15_WitnessMissing ==
    /\ AuthorizedAndDone(1)
    /\ \A k \in ConfigKeys : Missing(k)
    /\ OnlyResponse(1, 200)

-----------------------------------------------------------------------------
(* C16 *)

\* The manual retriever of request r returned a value that is not made of
\* three fields.
ManualReturnedOther(r) ==
    \E i \in 1..Len(calls[r]) :
        /\ calls[r][i].fn = "retrieve_docs_manual"
        /\ ~calls[r][i].outcome.raised
        /\ Len(calls[r][i].outcome.value) # 3

\* C16: once the manual retriever has returned a value of two or of four
\* fields, the request is propagating the exception or has been answered
\* 500 and nothing else; that call is its last call, so generate is never
\* called; the three manual outputs still hold 'none', none of them a field
\* of the returned value; and no record is assembled.
C16_BadTripleFatal ==
    \A r \in Requests :
        ManualReturnedOther(r) =>
            /\ pc[r] \in {"raised", "done"}
            /\ exc[r].stage = "unpack"
            /\ calls[r][Len(calls[r])].fn = "retrieve_docs_manual"
            /\ CallsOf(r, "generate") = <<>>
            /\ local[r].problem_list_manual = Sentinel
            /\ local[r].selected_doc_manual = Sentinel
            /\ local[r].retrieved_docs_manual = Sentinel
            /\ local[r].output_dict = Unbound
            /\ \A i \in 1..Len(responses[r]) : responses[r][i].status = 500
            /\ pc[r] = "done" => OnlyResponse(r, 500)

\* The retriever returned two fields to an Assignment request: 500.
C16_Witness ==
    /\ pc[1] = "done"
    /\ InSet("ASSIGNMENT_CATEGORIES")
    /\ ManualReturnedOther(1)
    /\ Len(calls[1][Len(calls[1])].outcome.value) = 2
    /\ responses[1] = <<[status |-> 500,
                         body   |-> [error  |-> "Internal Server Error",
                                     detail |-> "not enough values to unpack"]]>>

\* The retriever returned four fields.
C16_WitnessFour ==
    /\ pc[1] = "done"
    /\ ManualReturnedOther(1)
    /\ exc[1].msg = "too many values to unpack"
    /\ OnlyResponse(1, 500)

-----------------------------------------------------------------------------
(* C17 *)

\* The collaborators answered requests a and b alike: call by call the same
\* collaborator returned the same value or raised the same error, OCR
\* returning the turns it was given in both.
SameCollaboratorResponses(a, b) ==
    /\ Len(calls[a]) = Len(calls[b])
    /\ \A i \in 1..Len(calls[a]) :
          /\ calls[a][i].fn = calls[b][i].fn
          /\ calls[a][i].outcome.raised = calls[b][i].outcome.raised
          /\ IF calls[a][i].fn = "ocr_process_input" /\ ~calls[a][i].outcome.raised
             THEN /\ calls[a][i].outcome.value = calls[a][i].args.conversation_history
                  /\ calls[b][i].outcome.value = calls[b][i].args.conversation_history
             ELSE calls[a][i].outcome.value = calls[b][i].outcome.value

\* C17: two finished requests with the same payload, handled under the same
\* configuration, whose collaborators answered alike, got the same responses,
\* handed their collaborators the same arguments, and, when answered 200,
\* assembled the same output record, field by field.
C17_Deterministic ==
    \A a, b \in Requests :
        (pc[a] = "done" /\ pc[b] = "done" /\ request[a] = request[b]
            /\ SameCollaboratorResponses(a, b)) =>
            /\ responses[a] = responses[b]
            /\ \A i \in 1..Len(calls[a]) : calls[a][i].args = calls[b][i].args
            /\ OnlyResponse(a, 200) => local[a].output_dict = local[b].output_dict

\* Two requests in the Assignment path, both answered 200 from the same
\* collaborator values; and two requests whose collaborators answered
\* differently, with different records.
C17_Witness ==
    /\ pc[1] = "done" /\ pc[2] = "done"
    /\ request[1] = request[2]
    /\ "chat" \in DOMAIN request[1].body.json
    /\ SameCollaboratorResponses(1, 2)
    /\ Len(CallsOf(1, "generate")) = 2
    /\ OnlyResponse(1, 200)
    /\ OnlyResponse(2, 200)
    /\ local[1].output_dict.response_0 = "dummy"
    /\ local[2].output_dict.response = "LLM-answer"

C17_WitnessOtherResponses ==
    /\ OnlyResponse(1, 200)
    /\ OnlyResponse(2, 200)
    /\ request[1] = request[2]
    /\ ~SameCollaboratorResponses(1, 2)
    /\ local[1].output_dict # local[2].output_dict

-----------------------------------------------------------------------------
(* C18 *)

\* Request r sent a JSON object, passed the authorization check, and its
\* course configuration and category lists were read.
PastConfig(r) ==
    /\ request[r].body.kind = "object"
    /\ pc[r] \notin {"idle", "auth", "parse", "load_config", "env_lists"}
    /\ Len(responses[r]) = 0 \/ responses[r][1].status # 401
    /\ Len(calls[r]) >= 1
    /\ ~calls[r][1].outcome.raised
    /\ \A k \in CategoryKeys : ~Malformed(k)

\* C18: whichever of the fields assignment, question, location, description
\* and chat the body lacks, the empty object included, a request whose configuration
\* was read is building its conversation, is at the OCR stage, or has called
\* ocr_process_input; the first turn handed to OCR and the thread title hold
\* the empty text for every absent field; without chat the conversation is
\* that one turn; and when nothing else fails the request is answered 200.
C18_MissingFieldsTolerated ==
    \A r \in Requests :
        /\ PastConfig(r) =>
              \/ pc[r] \in {"build", "ocr"}
              \/ Len(CallsOf(r, "ocr_process_input")) = 1
        /\ \A i \in 1..Len(calls[r]) :
              calls[r][i].fn = "ocr_process_input" =>
                  LET conv  == calls[r][i].args.conversation_history
                      title == calls[r][i].args.thread_title
                  IN
                  /\ conv[1].text =
                        <<"Assignment: ">> \o FieldOf(r, "assignment")
                        \o <<NL, "Question: ">> \o FieldOf(r, "question")
                        \o <<NL, "Description: ">> \o FieldOf(r, "description")
                  /\ title = FieldOf(r, "assignment") \o <<" - ">> \o FieldOf(r, "question")
                  /\ "chat" \notin DOMAIN request[r].body.json => Len(conv) = 1
        /\ (AuthorizedAndSucceeded(r) /\ ManualReturnedTriple(r)) => OnlyResponse(r, 200)

\* The empty object, label in the Assignment set: every stage ran on the
\* turn "Assignment: \nQuestion: \nDescription: " and the answer is 200.
C18_Witness ==
    /\ AuthorizedAndSucceeded(1)
    /\ request[1].auth = "secret"
    /\ DOMAIN request[1].body.json = {}
    /\ InSet("ASSIGNMENT_CATEGORIES")
    /\ CallsOf(1, "ocr_process_input")[1].args.conversation_history =
          <<Turn(<<"Assignment: ", NL, "Question: ", NL, "Description: ">>)>>
    /\ CallsOf(1, "ocr_process_input")[1].args.thread_title = <<" - ">>
    /\ Len(CallsOf(1, "generate")) = 2
    /\ OnlyResponse(1, 200)

\* Only the description and the chat are there.
C18_WitnessSomeAbsent ==
    /\ AuthorizedAndSucceeded(1)
    /\ DOMAIN request[1].body.json = {"description", "chat"}
    /\ Len(CallsOf(1, "ocr_process_input")[1].args.conversation_history) = 2
    /\ OnlyResponse(1, 200)

-----------------------------------------------------------------------------
(* C19 *)

\* C19 (as claimed): no step of the handling of a request changes the
\* process-wide configuration, that is the environment and the prompt set.
C19_ConfigReadOnly == [][environ' = environ /\ prompts' = prompts]_vars

\* The course configuration is loaded: the prompt set is that of ds100 and
\* the environment holds every setting of configs/ds100.env.
Loaded ==
    /\ prompts = "ds100_multiturn_prompts"
    /\ environ = LoadDotenvOverride(environ, configFile)

\* The stages that read the category sets, the index names, the mappings or
\* the prompt set
ReadingStages ==
    {"env_lists", "build", "ocr", "summarize", "qa", "hybrid", "manual",
     "generate", "generate_second", "assemble"}

\* One step keeps to the amended claim.
ConfigStep ==
    /\ (environ' # environ \/ prompts' # prompts) =>
          /\ \E r \in Requests : pc[r] = "load_config" /\ pc'[r] = "env_lists"
          /\ prompts' = "ds100_multiturn_prompts"
          /\ environ' = LoadDotenvOverride(environ, configFile)
          /\ \A k \in CategoryKeys : environ'[k] = environ[k]
    /\ Loaded => (environ' = environ /\ prompts' = prompts)
    /\ \A r \in Requests : pc'[r] \in ReadingStages => Loaded'

\* C19 (amended): the handling of a request writes process-wide state in one
\* step only, the return of load_course_config, which binds the prompt set
\* to the ds100 prompts and puts the settings of configs/ds100.env into the
\* environment, leaving the category sets as they were; once the course
\* configuration is loaded no step of any request changes it; and a request
\* is at a stage that reads the configuration only when it is loaded, so two
\* interleaved requests read the same configuration.
C19_ConfigWrittenOnlyByLoad == [][ConfigStep]_vars

\* Request 1 has loaded the configuration and is at hybrid retrieval when
\* request 2 returns from load_course_config in its turn: nothing changes.
C19_Witness ==
    /\ pc[1] = "hybrid"
    /\ pc[2] = "env_lists"
    /\ Len(calls[2]) = 1
    /\ ~calls[2][1].outcome.raised
    /\ Loaded
    /\ environ["LOGISTICS_INDEX_NAME"] = "logistics-index"

-----------------------------------------------------------------------------
(* C20 *)

\* C20: in a request whose generation branch is Content, Logistics,
\* Worksheet or none, that is whose label is not in the Assignment set, the
\* draft is the empty string when the handler comes to assemble the record
\* and in the record it assembles; the record of a request of the
\* Assignment branch holds as draft what the stage-1 generate call returned.
C20_DraftOnlyForAssignment ==
    \A r \in Requests :
        /\ (pc[r] = "assemble" /\ ~InSet("ASSIGNMENT_CATEGORIES")) =>
              local[r].response_0 = ""
        /\ (OnlyResponse(r, 200) /\ ~InSet("ASSIGNMENT_CATEGORIES")) =>
              local[r].output_dict.response_0 = ""
        /\ (OnlyResponse(r, 200) /\ InSet("ASSIGNMENT_CATEGORIES")) =>
              local[r].output_dict.response_0 = CallsOf(r, "generate")[1].outcome.value

\* A Worksheet-only request answered "LLM-answer": its record has no draft.
C20_Witness ==
    /\ OnlyResponse(1, 200)
    /\ OnlyInSet("WORKSHEET_CATEGORIES")
    /\ Len(CallsOf(1, "generate")) = 1
    /\ local[1].output_dict.response = "LLM-answer"
    /\ local[1].output_dict.response_0 = ""

-----------------------------------------------------------------------------
(* C21 *)

\* The i-th call of request r is the generate call of the Content or of the
\* Logistics branch.
ContentOrLogisticsCall(r, i) ==
    /\ calls[r][i].fn = "generate"
    /\ calls[r][i].args.prompt.prompt \in {"get_content_prompt", "get_logistics_prompt"}

\* The manual triple of request r is still the sentinel.
ManualTripleIsSentinel(r) ==
    /\ local[r].problem_list_manual = Sentinel
    /\ local[r].selected_doc_manual = Sentinel
    /\ local[r].retrieved_docs_manual = Sentinel

\* C21 (as claimed): a request that generates its answer in the Content or
\* the Logistics branch has not called manual retrieval, and its manual
\* triple is 'none'.
C21_NoManualForContentLogistics ==
    \A r \in Requests :
        \A i \in 1..Len(calls[r]) :
            ContentOrLogisticsCall(r, i) =>
                /\ CallsOf(r, "retrieve_docs_manual") = <<>>
                /\ ManualTripleIsSentinel(r)

\* C21 (amended): a request that generates its answer in the Content or the
\* Logistics branch, with a label that is not in the Worksheet set, has not
\* called manual retrieval and its manual triple is 'none'; with a label that
\* is also in the Worksheet set, manual retrieval ran once, right before the
\* generate call, and the triple holds the three values it returned.  In both
\* cases the prompt is built without the manual documents.
C21_ManualFollowsWorksheet ==
    \A r \in Requests :
        \A i \in 1..Len(calls[r]) :
            ContentOrLogisticsCall(r, i) =>
                LET m == CallsOf(r, "retrieve_docs_manual") IN
                /\ "retrieved_docs_manual" \notin DOMAIN calls[r][i].args.prompt
                /\ ~InSet("WORKSHEET_CATEGORIES") =>
                      /\ m = <<>>
                      /\ ManualTripleIsSentinel(r)
                /\ InSet("WORKSHEET_CATEGORIES") =>
                      /\ Len(m) = 1
                      /\ calls[r][i - 1] = m[1]
                      /\ local[r].problem_list_manual   = m[1].outcome.value[1]
                      /\ local[r].selected_doc_manual   = m[1].outcome.value[2]
                      /\ local[r].retrieved_docs_manual = m[1].outcome.value[3]

\* A label in the Content and the Worksheet sets: manual retrieval selected
\* "doc-3", then the answer was generated from the content prompt.
C21_Witness ==
    /\ ~InSet("ASSIGNMENT_CATEGORIES")
    /\ InSet("CONTENT_CATEGORIES")
    /\ InSet("WORKSHEET_CATEGORIES")
    /\ GeneratePrompts(1) = <<"get_content_prompt">>
    /\ Len(CallsOf(1, "retrieve_docs_manual")) = 1
    /\ local[1].selected_doc_manual = "doc-3"
    /\ OnlyResponse(1, 200)

\* A Logistics-only label: no manual retrieval before the logistics prompt.
C21_WitnessLogisticsOnly ==
    /\ OnlyInSet("LOGISTICS_CATEGORIES")
    /\ GeneratePrompts(1) = <<"get_logistics_prompt">>
    /\ CallsOf(1, "retrieve_docs_manual") = <<>>
    /\ ManualTripleIsSentinel(1)
    /\ OnlyResponse(1, 200)

-----------------------------------------------------------------------------
(* C22 *)

\* Request r was answered 500, by the handler of unhandled exceptions.
Answered500(r) == OnlyResponse(r, 500)

\* The body of the response to request r.
BodyOf(r) == responses[r][1].body

\* C22 (as claimed): two requests that failed receive identical 500 bodies,
\* whichever stages failed and whatever the exceptions said.
C22_Opaque500 ==
    \A a \in Requests, b \in Requests :
        Answered500(a) /\ Answered500(b) => BodyOf(a) = BodyOf(b)

\* C22 (amended): a 500 body has the fixed error text and, as its detail, the
\* message of the exception; it does not depend on which stage failed, so two
\* failed requests receive identical bodies exactly when their exceptions
\* have the same message.
C22_BodyIsErrorAndMessage ==
    \A a \in Requests, b \in Requests :
        Answered500(a) /\ Answered500(b) =>
            /\ DOMAIN BodyOf(a) = {"error", "detail"}
            /\ BodyOf(a).error = "Internal Server Error"
            /\ BodyOf(a).detail = exc[a].msg
            /\ (BodyOf(a) = BodyOf(b)) <=> (exc[a].msg = exc[b].msg)

\* OCR failed with "boom" in one request, generation with "bang" in the
\* other: the two 500 bodies differ.
C22_Witness ==
    /\ Answered500(1) /\ Answered500(2)
    /\ exc[1] = [stage |-> "ocr_process_input", msg |-> "boom"]
    /\ exc[2] = [stage |-> "generate", msg |-> "bang"]
    /\ BodyOf(1) # BodyOf(2)

\* Two different stages failed with the same message: identical bodies.
C22_WitnessSameMessage ==
    /\ Answered500(1) /\ Answered500(2)
    /\ exc[1].stage # exc[2].stage
    /\ exc[1].msg = exc[2].msg
    /\ BodyOf(1) = BodyOf(2)

=============================================================================
